---- MODULE Spec2Model ----
(***************************************************************************)
(* Farm Bot (src/main.py): one scheduled run of the clip harvesting        *)
(* pipeline.  main() requests a Twitch app token, collects the clips of    *)
(* the configured creators that reach VIEW_THRESHOLD, sorts and truncates  *)
(* them, downloads each clip and one slice per YouTube channel with        *)
(* yt-dlp, and uploads the downloaded files to a dated Drive folder that   *)
(* ensure_folder looks up or creates.                                      *)
(*                                                                         *)
(* The Twitch API, yt-dlp and Google Drive are the environment: every      *)
(* answer they can give is a nondeterministic choice of the action that    *)
(* makes the call.                                                         *)
(***************************************************************************)
EXTENDS Integers, Sequences, FiniteSets, TLC

VARIABLES
    CREATORS,        \* line 37: the configured creator logins, in order
    CLIP_LIMIT,      \* line 38: int(os.getenv("CLIP_LIMIT", 12))
    VIEW_THRESHOLD,  \* line 39: int(os.getenv("VIEW_THRESHOLD", 800))
    YT_CHANNELS,     \* line 40: the configured YouTube locators, in order
    ROOT_FOLDER_ID,  \* line 43: os.getenv("ROOT_FOLDER_ID"), None when unset
    today_str,       \* line 44: the run's date stamp, "%y-%m-%d"
    GDRIVE_KEY_B64,  \* line 152: os.environ['GDRIVE_KEY_B64'], None when unset
    pc,              \* the statement of main() the run is at
    fatal,           \* the uncaught exception that ended the run, or "none"
    run,             \* the number of the scheduled run
    ACCESS_TOKEN,    \* line 56: res.get("access_token")
    ci,              \* line 93: index of the next login of CREATORS
    lookups,         \* logins whose helix/users request was sent (lines 94-98)
    queried,         \* logins whose helix/clips request was sent (lines 105-114)
    skipped,         \* places of CREATORS that took the continue of line 102
    clips,           \* line 92: the clips appended by line 118
    selected,        \* line 119: clips after sorted(...)[:CLIP_LIMIT]
    di,              \* line 124: index of the next selected clip
    yi,              \* line 133: index of the next YouTube channel
    fetches,         \* yt-dlp invocations so far (lines 127-129, 138-141)
    downloaded,      \* line 123: the output paths appended by lines 130, 142
    drive,           \* the folders of the Drive backend
    calls,           \* the ensure_folder calls of this run (lines 163-165)
    farm_id,         \* line 163
    inbound_id,      \* line 164
    date_id,         \* line 165
    resolved,        \* per finished resolution: its leaf and folders created
    racing,          \* two runs inside lines 163-165 at once: where each is
    ui,              \* line 169: index of the next file to upload
    uploads          \* the Upload() calls of lines 170-175 and their outcome

config == <<CREATORS, CLIP_LIMIT, VIEW_THRESHOLD, YT_CHANNELS, ROOT_FOLDER_ID,
           GDRIVE_KEY_B64>>
discovery == <<ci, lookups, queried, skipped, clips, selected>>
acquisition == <<di, yi, fetches, downloaded>>
resolver == <<drive, calls, farm_id, inbound_id, date_id, resolved, racing>>
delivery == <<ui, uploads>>
vars == <<config, today_str, pc, fatal, run, ACCESS_TOKEN, discovery,
          acquisition, resolver, delivery>>

----------------------------------------------------------------------------
(* Bounds of the model.                                                     *)

MaxCreators == 2
MaxClips == 3
MaxYT == 2
MaxRuns == 2

(* The values the environment and the configuration are drawn from.         *)

None == "None"
Logins == {"alice", "bob"}
Views == {700, 900, 1500}
DefaultViewThreshold == 800
DefaultClipLimit == 12
Thresholds == {0, DefaultViewThreshold, 1500}
Limits == {-1, 0, 1, 2, DefaultClipLimit}
Channels == <<"yt1", "yt2", "yt3">>
Suffixes == {100000, 999999}
Dates == <<"24-05-01", "24-05-02">>
FolderIds == <<"f1", "f2", "f3", "f4", "f5", "f6", "f7", "f8", "f9", "f10",
               "f11", "f12">>

Min(a, b) == IF a <= b THEN a ELSE b
Max(a, b) == IF a >= b THEN a ELSE b

SeqsUpTo(S, n) == UNION {[1..k -> S] : k \in 0..n}

----------------------------------------------------------------------------
(* The answers of the Twitch API.                                           *)

IdBase == [alice |-> 10, bob |-> 20, carol |-> 30]

(* The display_name of the platform's record of a login. *)
Display == [alice |-> "Alice", bob |-> "Bob", carol |-> "Carol"]
ClipId(login, k) == IdBase[login] + k

(* The first record of a helix/users answer for login: a JSON object with   *)
(* or without the keys id and display_name.                                 *)
UserRecords(login) ==
    {[id |-> IdBase[login], display_name |-> Display[login]],
     [id |-> IdBase[login]],
     [display_name |-> Display[login]]}

(* The k-th clip of a helix/clips answer for login: a JSON object with an   *)
(* id, with or without the key view_count.  Its url is not looked at        *)
(* before line 128.                                                         *)
ClipsAt(login, k) ==
    {[id |-> ClipId(login, k)]}
        \cup {[id |-> ClipId(login, k), view_count |-> v] : v \in Views}

(* The answers of helix/clips for login that hold at most max clips.        *)
RECURSIVE ClipResponsesOfLen(_, _)
ClipResponsesOfLen(login, n) ==
    IF n = 0 THEN {<<>>}
    ELSE {Append(r, c) : r \in ClipResponsesOfLen(login, n - 1),
                         c \in ClipsAt(login, n)}

ClipResponses(login, max) ==
    UNION {ClipResponsesOfLen(login, n) : n \in 0..max}

----------------------------------------------------------------------------
(* Selection: lines 115-119.                                                *)

(* clip.get('view_count', 0) *)
ViewCountOrZero(clip) ==
    IF "view_count" \in DOMAIN clip THEN clip.view_count ELSE 0

(* The filter with the threshold left out of the comparison. *)
PassesAnyThreshold(clip, threshold) == ViewCountOrZero(clip) >= 0

(* line 116: the condition under which a clip is appended *)
PassesThreshold(clip, threshold) == ViewCountOrZero(clip) >= threshold

(* lines 117-118: the clips of one answer that are appended, each with the  *)
(* creator's display name, in the order of the answer                       *)
RECURSIVE Kept(_, _, _)
Kept(resp, display, threshold) ==
    IF resp = <<>> THEN <<>>
    ELSE LET c == Head(resp)
             rest == Kept(Tail(resp), display, threshold)
         IN  IF PassesThreshold(c, threshold)
             THEN <<IF "view_count" \in DOMAIN c
                    THEN [id |-> c.id, view_count |-> c.view_count,
                          broadcaster_display |-> display]
                    ELSE [id |-> c.id, broadcaster_display |-> display]>>
                  \o rest
             ELSE rest

(* sorted(..., reverse=True): a stable sort, so of two clips with the same  *)
(* key the one that came first stays first.  x goes behind every element    *)
(* whose key is >= its own.                                                 *)
(* The insertion of an ascending sort read backwards (sorted(...)[::-1]):   *)
(* x goes in front of the elements whose key equals its own.                *)
RECURSIVE InsertDescTiesFirst(_, _)
InsertDescTiesFirst(x, s) ==
    IF s = <<>> THEN <<x>>
    ELSE IF Head(s).view_count > x.view_count
         THEN <<Head(s)>> \o InsertDescTiesFirst(x, Tail(s))
         ELSE <<x>> \o s

RECURSIVE InsertDesc(_, _)
InsertDesc(x, s) ==
    IF s = <<>> THEN <<x>>
    ELSE IF Head(s).view_count >= x.view_count
         THEN <<Head(s)>> \o InsertDesc(x, Tail(s))
         ELSE <<x>> \o s

RECURSIVE SortedByViewsDesc(_)
SortedByViewsDesc(s) ==
    IF s = <<>> THEN <<>>
    ELSE InsertDesc(s[Len(s)], SortedByViewsDesc(SubSeq(s, 1, Len(s) - 1)))

(* s[:k] of Python: the first k elements, and for a negative k all but the  *)
(* last -k elements                                                         *)
Slice(s, k) ==
    IF k >= 0 THEN SubSeq(s, 1, Min(k, Len(s)))
    ELSE SubSeq(s, 1, Max(0, Len(s) + k))

(* line 119: the key function x['view_count'] raises KeyError on a clip     *)
(* that has no view_count                                                   *)
SortRaises(s) == \E i \in 1..Len(s) : "view_count" \notin DOMAIN s[i]

Select(s, limit) == Slice(SortedByViewsDesc(s), limit)

----------------------------------------------------------------------------
(* Acquisition: lines 123-144.                                              *)

(* line 125: DL_DIR / f"{clip['broadcaster_display']}-{clip['id']}.mp4",    *)
(* kept as the two parts the name is formatted from                         *)
ClipPath(clip) == [name |-> clip.broadcaster_display, id |-> clip.id]

(* line 137: DL_DIR / f"YT-{random.randint(100000,999999)}.mp4" *)
SlicePath(suffix) == [name |-> "YT", id |-> suffix]

(* The append placed in the except clause. *)
AfterFetchAppendOnFailure(list, out, ok) ==
    IF ok THEN list ELSE Append(list, out)

(* The append placed in front of the call of yt-dlp. *)
AfterFetchAppendFirst(list, out, ok) == Append(list, out)

(* lines 126-132 and 134-144: the path is appended after yt-dlp returned    *)
(* with exit status 0; a CalledProcessError (for a slice: any Exception)    *)
(* is caught and the loop goes on                                           *)
AfterFetch(list, out, ok) == IF ok THEN Append(list, out) ELSE list

----------------------------------------------------------------------------
(* Drive: lines 70-84.                                                      *)

TARGET_ROOT == "The Farm"
TARGET_INBOUND == "Inbound"

Folder(id, name, parent, trashed) ==
    [id |-> id, name |-> name, parent |-> parent, trashed |-> trashed]

(* lines 71-74: the query is an f-string followed by a plain string         *)
(* literal, so the parent is interpolated and the name is not: the query    *)
(* asks for folders whose name is the text {title}                          *)
QueryName(title) == "{title}"

(* line 75: the folders the query lists *)
Found(title, parent_id) ==
    {f \in drive : /\ f.parent = parent_id
                   /\ f.name = QueryName(title)
                   /\ ~f.trashed}

Created == {f \in drive : \E i \in 1..Len(FolderIds) : f.id = FolderIds[i]}
FreshId == FolderIds[Cardinality(Created) + 1]

(* lines 70-84: id is what ensure_folder(drive, title, parent_id) returns.  *)
(* found[0] is the first folder of the listing, whose order is the          *)
(* backend's.                                                               *)
ensure_folder(title, parent_id, id) ==
    IF Found(title, parent_id) # {}
    THEN /\ id \in {f.id : f \in Found(title, parent_id)}
         /\ drive' = drive
    ELSE /\ id = FreshId
         /\ drive' = drive \cup {[id |-> FreshId, name |-> title,
                                  parent |-> parent_id, trashed |-> FALSE]}

----------------------------------------------------------------------------
(* The run: main(), lines 35-178.                                           *)

Ended == pc \in {"done", "returned", "aborted"}

(* main() wrapped in a loop that starts over after an exception. *)
AbortAndRetry(exception) == pc' = "token" /\ fatal' = exception

(* An exception nothing catches leaves main() and ends the process. *)
Abort(exception) == pc' = "aborted" /\ fatal' = exception

(* The check of line 57 left out. *)
AfterTokenUnchecked(token) == "metadata"

(* lines 48-58: the token request.  The answer holds an access_token, or    *)
(* it holds none and line 58 raises RuntimeError; requests.post and the     *)
(* reads of os.environ raise on their own account.                          *)
AfterToken(token) == IF token = None THEN "aborted" ELSE "metadata"

RequestToken ==
    /\ pc = "token"
    /\ \/ \E token \in {None, "token"} :
            /\ ACCESS_TOKEN' = token
            /\ pc' = AfterToken(token)
            /\ fatal' = IF pc' = "aborted" THEN "RuntimeError" ELSE "none"
       \/ Abort("token request") /\ UNCHANGED ACCESS_TOKEN
    /\ UNCHANGED <<config, today_str, run, discovery, acquisition, resolver,
                   delivery>>

(* The creators that are live on the platform during the run. *)
LiveCreators == <<"alice", "bob">>

(* A loop that falls back to the live creators when none is configured. *)
CreatorsOrLive == IF CREATORS = <<>> THEN LiveCreators ELSE CREATORS

(* line 93: the logins the loop goes through *)
CreatorsToQuery == CREATORS

(* The loop left at the first login the platform does not know. *)
AfterNoSuchUserBreak(i) == Len(CreatorsToQuery) + 1

(* line 102: continue, the loop goes on with the next login *)
AfterNoSuchUser(i) == i + 1

(* lines 103-104: data[0]['id'] and data[0]['display_name'] raise KeyError  *)
(* on a record without the key                                              *)
UserRaises(user) ==
    IF "id" \notin DOMAIN user THEN "KeyError id"
    ELSE IF "display_name" \notin DOMAIN user THEN "KeyError display_name"
    ELSE "none"

(* lines 93-118: one pass of the loop over CREATORS.  data is empty for a   *)
(* login the platform does not know (line 100), and the pass ends at the    *)
(* continue of line 102.  An answer holds at most 20 clips (line 110); here *)
(* the clips of all answers together are at most MaxClips.                  *)
FetchClipMetadata ==
    /\ pc = "metadata"
    /\ ci <= Len(CreatorsToQuery)
    /\ LET login == CreatorsToQuery[ci] IN
       /\ lookups' = Append(lookups, login)
       /\ \/ /\ ci' = AfterNoSuchUser(ci)
             /\ skipped' = Append(skipped, ci)
             /\ UNCHANGED <<pc, fatal, queried, clips>>
          \/ \E user \in UserRecords(login) :
                /\ UserRaises(user) # "none"
                /\ Abort(UserRaises(user))
                /\ UNCHANGED <<ci, queried, skipped, clips>>
          \/ \E user \in UserRecords(login),
                clip_resp \in ClipResponses(login, MaxClips - Len(clips)) :
                LET kept == Kept(clip_resp, user.display_name,
                                 VIEW_THRESHOLD) IN
                /\ UserRaises(user) = "none"
                /\ queried' = Append(queried, login)
                /\ clips' = clips \o kept
                /\ ci' = ci + 1
                /\ UNCHANGED <<pc, fatal, skipped>>
          \/ /\ Abort("metadata request")
             /\ UNCHANGED <<ci, queried, skipped, clips>>
    /\ UNCHANGED <<config, today_str, run, ACCESS_TOKEN, selected,
                   acquisition, resolver, delivery>>

(* line 119, reached when the loop over CREATORS is exhausted *)
SelectClips ==
    /\ pc = "metadata"
    /\ ci > Len(CreatorsToQuery)
    /\ IF SortRaises(clips)
       THEN Abort("KeyError view_count") /\ UNCHANGED selected
       ELSE /\ selected' = Select(clips, CLIP_LIMIT)
            /\ pc' = "download"
            /\ UNCHANGED fatal
    /\ UNCHANGED <<config, today_str, run, ACCESS_TOKEN, ci, lookups,
                   queried, skipped, clips, acquisition, resolver, delivery>>

(* lines 124-132: one pass of the loop over the selected clips.  A fetch    *)
(* fails by the exit status of yt-dlp, which check=True turns into the      *)
(* CalledProcessError that line 131 catches.  clip['url'] is read for the   *)
(* first time at line 128, where the argument list is built: on a record    *)
(* without the key it raises KeyError before yt-dlp is started, and line    *)
(* 131 does not catch it.                                                   *)
DownloadClip ==
    /\ pc = "download"
    /\ di <= Len(selected)
    /\ \/ \E ok \in BOOLEAN :
             LET out == ClipPath(selected[di]) IN
             /\ fetches' = Append(fetches, [out |-> out, ok |-> ok])
             /\ downloaded' = AfterFetch(downloaded, out, ok)
             /\ di' = di + 1
             /\ UNCHANGED <<pc, fatal>>
       \/ /\ Abort("KeyError url")
          /\ UNCHANGED <<di, fetches, downloaded>>
    /\ UNCHANGED <<config, today_str, run, ACCESS_TOKEN, discovery,
                   yi, resolver, delivery>>

(* lines 133-144: one pass of the loop over YT_CHANNELS.  The section       *)
(* drawn at lines 135-136 is an argument of yt-dlp and decides nothing in   *)
(* main(); the suffix of line 137 names the output.  Line 143 catches every *)
(* Exception.                                                               *)
DownloadSlice ==
    /\ pc = "download"
    /\ di > Len(selected)
    /\ yi <= Len(YT_CHANNELS)
    /\ \E suffix \in Suffixes, ok \in BOOLEAN :
          LET out == SlicePath(suffix) IN
          /\ fetches' = Append(fetches, [out |-> out, ok |-> ok])
          /\ downloaded' = AfterFetch(downloaded, out, ok)
    /\ yi' = yi + 1
    /\ UNCHANGED <<config, today_str, pc, fatal, run, ACCESS_TOKEN, discovery,
                   di, resolver, delivery>>

(* The test of line 146 left out. *)
AfterAcquisitionAlwaysAuth(list) == "auth"

(* lines 146-148: return when the list is empty, go on to section 6 when    *)
(* it is not                                                                *)
AfterAcquisition(list) == IF list = <<>> THEN "returned" ELSE "auth"

(* lines 146-148 *)
CheckDownloaded ==
    /\ pc = "download"
    /\ di > Len(selected)
    /\ yi > Len(YT_CHANNELS)
    /\ pc' = AfterAcquisition(downloaded)
    /\ UNCHANGED <<config, today_str, fatal, run, ACCESS_TOKEN, discovery,
                   acquisition, resolver, delivery>>

(* lines 151-160: os.environ['GDRIVE_KEY_B64'] raises KeyError when the key *)
(* is not set                                                               *)
DriveAuth ==
    /\ pc = "auth"
    /\ IF GDRIVE_KEY_B64 = None
       THEN Abort("KeyError GDRIVE_KEY_B64")
       ELSE pc' = "farm" /\ UNCHANGED fatal
    /\ UNCHANGED <<config, today_str, run, ACCESS_TOKEN, discovery,
                   acquisition, resolver, delivery>>

(* One call of ensure_folder from lines 163-165, with its outcome logged.   *)
(* ListFile and Upload raise on a failed request; nothing catches it.       *)
Resolve(title, parent_id, id) ==
    /\ ensure_folder(title, parent_id, id)
    /\ calls' = Append(calls, [title |-> title, parent |-> parent_id,
                               id |-> id, created |-> drive' # drive])

CreatedBy(log) == Cardinality({i \in 1..Len(log) : log[i].created})

(* line 163 *)
EnsureFarm ==
    /\ pc = "farm"
    /\ \/ \E id \in {f.id : f \in drive} \cup {FreshId} :
            /\ Resolve(TARGET_ROOT, ROOT_FOLDER_ID, id)
            /\ farm_id' = id
            /\ pc' = "inbound"
            /\ UNCHANGED fatal
       \/ /\ Abort("drive request")
          /\ UNCHANGED <<drive, farm_id, calls>>
    /\ UNCHANGED <<config, today_str, run, ACCESS_TOKEN, discovery,
                   acquisition, inbound_id, date_id, resolved, racing,
                   delivery>>

(* line 164 *)
EnsureInbound ==
    /\ pc = "inbound"
    /\ \/ \E id \in {f.id : f \in drive} \cup {FreshId} :
            /\ Resolve(TARGET_INBOUND, farm_id, id)
            /\ inbound_id' = id
            /\ pc' = "date"
            /\ UNCHANGED fatal
       \/ /\ Abort("drive request")
          /\ UNCHANGED <<drive, inbound_id, calls>>
    /\ UNCHANGED <<config, today_str, run, ACCESS_TOKEN, discovery,
                   acquisition, farm_id, date_id, resolved, racing,
                   delivery>>

(* line 165 *)
EnsureDate ==
    /\ pc = "date"
    /\ \/ \E id \in {f.id : f \in drive} \cup {FreshId} :
            /\ Resolve(today_str, inbound_id, id)
            /\ date_id' = id
            /\ resolved' = Append(resolved,
                                  [leaf |-> id, date |-> today_str,
                                   created |-> CreatedBy(calls')])
            /\ pc' = "upload"
            /\ UNCHANGED fatal
       \/ /\ Abort("drive request")
          /\ UNCHANGED <<drive, date_id, calls, resolved>>
    /\ UNCHANGED <<config, today_str, run, ACCESS_TOKEN, discovery,
                   acquisition, farm_id, inbound_id, racing, delivery>>

(* A file uploaded next to the date folder instead of into it. *)
UploadParentInbound == inbound_id

(* line 172: 'parents': [{'id': date_id}] *)
UploadParent == date_id

(* lines 169-176: one pass of the upload loop.  Upload() raises on a failed *)
(* request and the loop has no try, so the exception ends the run.          *)
UploadFile ==
    /\ pc = "upload"
    /\ ui <= Len(downloaded)
    /\ \E ok \in BOOLEAN :
          /\ uploads' = Append(uploads, [name |-> downloaded[ui],
                                         parent |-> UploadParent,
                                         ok |-> ok])
          /\ IF ok
             THEN ui' = ui + 1 /\ UNCHANGED <<pc, fatal>>
             ELSE Abort("upload request") /\ UNCHANGED ui
    /\ UNCHANGED <<config, today_str, run, ACCESS_TOKEN, discovery,
                   acquisition, resolver>>

(* line 178 *)
Finish ==
    /\ pc = "upload"
    /\ ui > Len(downloaded)
    /\ pc' = "done"
    /\ UNCHANGED <<config, today_str, fatal, run, ACCESS_TOKEN, discovery,
                   acquisition, resolver, delivery>>

(* Two runs of the job at work on the same Drive at the same time, each at  *)
(* lines 163-165.  Inside ensure_folder the listing of line 75 and the      *)
(* Upload() of line 83 are two requests, and the other run can make its     *)
(* own between them.                                                        *)
ConcurrentRuns == {1, 2}

(* lines 163-165: the title of the n-th call *)
Segment(n) == <<TARGET_ROOT, TARGET_INBOUND, today_str>>[n]

(* The folders of the Drive that do bear the name title under parent_id.    *)
Named(title, parent_id) ==
    {f \in drive : f.parent = parent_id /\ f.name = title /\ ~f.trashed}

(* A second look at the Drive in front of the Upload() of line 83. *)
AfterMissLookAgain(title, parent_id) ==
    IF Named(title, parent_id) # {}
    THEN [id |-> (CHOOSE f \in Named(title, parent_id) : TRUE).id,
          drive |-> drive]
    ELSE [id |-> FreshId,
          drive |-> drive \cup {Folder(FreshId, title, parent_id, FALSE)}]

(* lines 78-84: with nothing found the folder is created, whatever the      *)
(* Drive holds by now                                                       *)
AfterMiss(title, parent_id) ==
    [id |-> FreshId,
     drive |-> drive \cup {Folder(FreshId, title, parent_id, FALSE)}]

Returned(r, title, id, missed, created) ==
    [racing EXCEPT ![r] =
        [seg |-> @.seg + 1, at |-> "list", parent |-> id, absent |-> FALSE,
         log |-> Append(@.log, [title |-> title, parent |-> @.parent,
                                id |-> id, missed |-> missed,
                                absent |-> @.absent, created |-> created])]]

(* lines 71-77 in run r: the listing, and the return of found[0] when it    *)
(* is not empty.  absent notes whether the Drive held no folder of the      *)
(* name at the time of the listing.                                         *)
ListFolders(r) ==
    /\ racing[r].at = "list"
    /\ racing[r].seg <= 3
    /\ LET title == Segment(racing[r].seg)
           parent_id == racing[r].parent
       IN  \/ /\ Found(title, parent_id) # {}
              /\ \E f \in Found(title, parent_id) :
                    racing' = Returned(r, title, f.id, FALSE, FALSE)
           \/ /\ Found(title, parent_id) = {}
              /\ racing' = [racing EXCEPT
                               ![r].at = "create",
                               ![r].absent = Named(title, parent_id) = {}]
           \/ racing' = [racing EXCEPT ![r].at = "aborted"]
    /\ UNCHANGED <<config, today_str, pc, fatal, run, ACCESS_TOKEN, discovery,
                   acquisition, drive, calls, farm_id, inbound_id, date_id,
                   resolved, delivery>>

(* lines 78-84 in run r *)
CreateFolder(r) ==
    /\ racing[r].at = "create"
    /\ LET title == Segment(racing[r].seg)
           made == AfterMiss(title, racing[r].parent)
       IN  \/ /\ drive' = made.drive
              /\ racing' = Returned(r, title, made.id, TRUE, drive' # drive)
           \/ /\ racing' = [racing EXCEPT ![r].at = "aborted"]
              /\ UNCHANGED drive
    /\ UNCHANGED <<config, today_str, pc, fatal, run, ACCESS_TOKEN, discovery,
                   acquisition, calls, farm_id, inbound_id, date_id,
                   resolved, delivery>>

(* The next scheduled run of the job (docstring, line 4): the same          *)
(* configuration, a fresh process, the Drive as the earlier runs left it,   *)
(* on the same day or the next.                                             *)
NextDate(d) == IF d = Dates[1] THEN Dates[2] ELSE d

NextRun ==
    /\ Ended
    /\ run < MaxRuns
    /\ run' = run + 1
    /\ today_str' \in {today_str, NextDate(today_str)}
    /\ pc' = "token"
    /\ fatal' = "none"
    /\ ACCESS_TOKEN' = None
    /\ ci' = 1 /\ lookups' = <<>> /\ queried' = <<>> /\ skipped' = <<>>
    /\ clips' = <<>> /\ selected' = <<>>
    /\ di' = 1 /\ yi' = 1 /\ fetches' = <<>> /\ downloaded' = <<>>
    /\ calls' = <<>> /\ farm_id' = None /\ inbound_id' = None
    /\ date_id' = None
    /\ ui' = 1 /\ uploads' = <<>>
    /\ UNCHANGED <<config, drive, resolved, racing>>

----------------------------------------------------------------------------
(* The states a run starts in.                                              *)

(* The root the service account works under: the folder ROOT_FOLDER_ID      *)
(* names, or the account's own root.                                        *)
SharedRoot == "shared"
DriveRoot == "root"

(* What the Drive may hold before the first run, under parent: nothing, the *)
(* tree of an earlier day, or a folder whose name is the text {title},      *)
(* trashed or not.                                                          *)
InitialDrives(parent) ==
    { {},
      {Folder("e1", TARGET_ROOT, parent, FALSE),
       Folder("e2", TARGET_INBOUND, "e1", FALSE),
       Folder("e3", Dates[1], "e2", FALSE)},
      {Folder("e1", "{title}", parent, FALSE)},
      {Folder("e1", "{title}", parent, TRUE)} }

InitRun ==
    /\ pc = "token" /\ fatal = "none" /\ run = 1
    /\ ACCESS_TOKEN = None
    /\ today_str = Dates[1]
    /\ ci = 1 /\ lookups = <<>> /\ queried = <<>> /\ skipped = <<>>
    /\ clips = <<>> /\ selected = <<>>
    /\ di = 1 /\ yi = 1 /\ fetches = <<>> /\ downloaded = <<>>
    /\ calls = <<>> /\ farm_id = None /\ inbound_id = None /\ date_id = None
    /\ resolved = <<>>
    /\ racing = [r \in ConcurrentRuns |->
                    [seg |-> 1, at |-> "list", parent |-> ROOT_FOLDER_ID,
                     absent |-> FALSE, log |-> <<>>]]
    /\ ui = 1 /\ uploads = <<>>

(* The secret of the Drive service account, set or not. *)
Keys == {None, "key"}

Configured(creators, limits, thresholds, channels, roots, keys, drives) ==
    /\ GDRIVE_KEY_B64 \in keys
    /\ CREATORS \in creators
    /\ CLIP_LIMIT \in limits
    /\ VIEW_THRESHOLD \in thresholds
    /\ YT_CHANNELS \in channels
    /\ ROOT_FOLDER_ID \in roots
    /\ drive \in IF drives THEN InitialDrives(IF ROOT_FOLDER_ID = None
                                               THEN DriveRoot
                                               ELSE ROOT_FOLDER_ID)
                ELSE {{}}

AllCreators == SeqsUpTo(Logins, MaxCreators)
LongCreators == SeqsUpTo(Logins \cup {"carol"}, MaxCreators + 1)
AllChannels == {SubSeq(Channels, 1, n) : n \in 0..MaxYT}

(* Whole runs: at most one creator, every list of channels, the default    *)
(* limit, a threshold that drops clips, a configured root, the Drive key    *)
(* set or not, an empty Drive.                                              *)
Init ==
    /\ Configured(SeqsUpTo(Logins, 1), {DefaultClipLimit}, Thresholds \ {0},
                  AllChannels, {SharedRoot}, Keys, FALSE)
    /\ InitRun

(* Runs up to the selection of line 119: every threshold and every limit.   *)
InitSelection ==
    /\ Configured(AllCreators, Limits, Thresholds, {<<>>}, {SharedRoot},
                  {"key"}, FALSE)
    /\ InitRun

(* Runs up to the selection of line 119 over lists of creators long enough  *)
(* for a login to have a neighbour on either side: the default limit and    *)
(* threshold.                                                               *)
InitCreators ==
    /\ Configured(LongCreators, {DefaultClipLimit}, {DefaultViewThreshold},
                  {<<>>}, {SharedRoot}, {"key"}, FALSE)
    /\ InitRun

(* Scheduled runs, one after the other on the same Drive: no creator, at    *)
(* most one channel, the root set or not, every initial Drive.              *)
InitScheduled ==
    /\ Configured({<<>>}, {DefaultClipLimit},
                  {DefaultViewThreshold}, {<<>>, <<Channels[1]>>},
                  {None, SharedRoot}, Keys, TRUE)
    /\ InitRun

(* Two runs that reached line 163 on the same day: the root set or not,     *)
(* every initial Drive.                                                     *)
InitConcurrent ==
    /\ Configured({<<>>}, {DefaultClipLimit}, {DefaultViewThreshold},
                  {<<>>}, {None, SharedRoot}, {"key"}, TRUE)
    /\ InitRun

Next ==
    \/ RequestToken
    \/ FetchClipMetadata
    \/ SelectClips
    \/ DownloadClip
    \/ DownloadSlice
    \/ CheckDownloaded
    \/ DriveAuth
    \/ EnsureFarm
    \/ EnsureInbound
    \/ EnsureDate
    \/ UploadFile
    \/ Finish

NextSelection ==
    \/ RequestToken
    \/ FetchClipMetadata
    \/ SelectClips

(* With no creator configured the loops of lines 93 and 124 have no pass.   *)
NextScheduled ==
    \/ RequestToken
    \/ SelectClips
    \/ DownloadSlice
    \/ CheckDownloaded
    \/ DriveAuth
    \/ EnsureFarm
    \/ EnsureInbound
    \/ EnsureDate
    \/ UploadFile
    \/ Finish
    \/ NextRun

NextConcurrent ==
    \/ \E r \in ConcurrentRuns : ListFolders(r)
    \/ \E r \in ConcurrentRuns : CreateFolder(r)

Spec == Init /\ [][Next]_vars
SpecSelection == InitSelection /\ [][NextSelection]_vars
SpecCreators == InitCreators /\ [][NextSelection]_vars
SpecScheduled == InitScheduled /\ [][NextScheduled]_vars
SpecConcurrent == InitConcurrent /\ [][NextConcurrent]_vars

(* Every request main() makes, and every run of yt-dlp, returns or raises:  *)
(* the statement the run is at is eventually executed.                      *)
SpecLive == Init /\ [][Next]_vars /\ WF_vars(Next)

----------------------------------------------------------------------------
(* Where a run is.                                                          *)

BeforeSelection ==
    \/ pc \in {"token", "metadata"}
    \/ pc = "aborted" /\ fatal \in {"RuntimeError", "token request",
                                    "metadata request", "KeyError id",
                                    "KeyError display_name",
                                    "KeyError view_count"}

(* an exception left the loop of lines 93-118 *)
AbortedInLoop ==
    /\ pc = "aborted"
    /\ fatal \in {"metadata request", "KeyError id", "KeyError display_name"}

(* The stage of the pipeline a statement belongs to: the token request,     *)
(* discovery (left by the selection of line 119), acquisition, destination  *)
(* resolution, delivery, and the end of the run.                            *)
Stage(at) ==
    CASE at = "token" -> 0
      [] at = "metadata" -> 1
      [] at = "download" -> 2
      [] at \in {"auth", "farm", "inbound", "date"} -> 3
      [] at = "upload" -> 4
      [] at \in {"done", "returned", "aborted"} -> 5

(* line 119 has run and bound the selection *)
SelectionDone == ~BeforeSelection

(* both download loops are exhausted *)
AcquisitionDone ==
    /\ SelectionDone
    /\ pc # "download"
    /\ ~(pc = "aborted" /\ fatal = "KeyError url")

IsOk(call) == call.ok
Outs(log) == [i \in 1..Len(log) |-> log[i].out]
IsClipPath(path) == path.name # "YT"
ViewsOf(s) == [i \in 1..Len(s) |-> s[i].view_count]
IdsOf(s) == [i \in 1..Len(s) |-> s[i].id]

(* The place of clips[p] in the stable descending order of clips: behind    *)
(* every clip with more views and behind the earlier clips with as many.    *)
Rank(s, p) ==
    1 + Cardinality({q \in 1..Len(s) : s[q].view_count > s[p].view_count})
      + Cardinality({q \in 1..(p - 1) : s[q].view_count = s[p].view_count})

----------------------------------------------------------------------------
(* C1: with a root configured, two finished resolutions for the same date,  *)
(* on a Drive that only the resolver writes to, return the same leaf, the   *)
(* second creates no folder, and afterwards no parent holds two of the      *)
(* folders the resolver created under one name.  The configured root is     *)
(* the same in every run of a behaviour.                                    *)
ResolverIdempotent ==
    \A i, j \in 1..Len(resolved) :
       (ROOT_FOLDER_ID # None /\ i < j /\ resolved[i].date = resolved[j].date)
          => /\ resolved[j].leaf = resolved[i].leaf
             /\ resolved[j].created = 0
             /\ \A f, g \in Created :
                   (f.name = g.name /\ f.parent = g.parent) => f = g

(* C2: a failed upload does not end the run, and once the run is over an    *)
(* upload was attempted for every downloaded file.                          *)
DeliveryIsolatesFailures ==
    (\E i \in 1..Len(uploads) : ~uploads[i].ok)
       => /\ pc \in {"upload", "done"}
          /\ pc = "done" => Len(uploads) = Len(downloaded)

(* C3: the downloaded list is, in order, the output paths of the fetches    *)
(* that succeeded; a failed fetch ends neither loop, so once acquisition    *)
(* is over every selected clip and every channel was fetched, and with one  *)
(* failure among N the list holds the other N-1; the run returns early      *)
(* only when the list is empty, and no fetch failure is fatal.              *)
AcquisitionIsolatesFailures ==
    /\ downloaded = Outs(SelectSeq(fetches, IsOk))
    /\ AcquisitionDone
          => /\ Len(fetches) = Len(selected) + Len(YT_CHANNELS)
             /\ \A i \in 1..Len(selected) :
                   fetches[i].out = ClipPath(selected[i])
             /\ Cardinality({i \in 1..Len(fetches) : ~fetches[i].ok}) = 1
                   => Len(downloaded) = Len(fetches) - 1
    /\ pc = "returned" => downloaded = <<>>
    /\ (AcquisitionDone /\ downloaded # <<>>) => pc # "returned"
    /\ (pc = "aborted" /\ fetches # <<>>)
          => fatal \in {"KeyError url", "KeyError GDRIVE_KEY_B64",
                        "drive request", "upload request"}

(* C3 witness: three clips selected, the fetch of exactly one failed, and   *)
(* the other two were delivered.                                            *)
OneOfThreeFetchesFailed ==
    /\ pc = "done"
    /\ Len(selected) = 3
    /\ YT_CHANNELS = <<>>
    /\ ~fetches[2].ok
    /\ downloaded = <<ClipPath(selected[1]), ClipPath(selected[3])>>
    /\ Len(uploads) = 2

(* C4: after an empty selection nothing is fetched, no folder is looked up  *)
(* or created, nothing is uploaded, and the run does not abort.             *)
EmptySelectionEndsRun ==
    (SelectionDone /\ selected = <<>>)
       => /\ fetches = <<>>
          /\ calls = <<>>
          /\ uploads = <<>>
          /\ pc # "aborted"

(* C5: every selected clip has at least VIEW_THRESHOLD views, and every     *)
(* clip that is fetched or uploaded is a selected clip.                     *)
ThresholdRespected ==
    /\ \A i \in 1..Len(clips) :
          ViewCountOrZero(clips[i]) >= VIEW_THRESHOLD
    /\ \A i \in 1..Len(selected) :
          /\ "view_count" \in DOMAIN selected[i]
          /\ selected[i].view_count >= VIEW_THRESHOLD
    /\ \A i \in 1..Len(fetches) :
          IsClipPath(fetches[i].out)
             => \E j \in 1..Len(selected) :
                   fetches[i].out = ClipPath(selected[j])
    /\ \A i \in 1..Len(uploads) :
          IsClipPath(uploads[i].name)
             => \E j \in 1..Len(selected) :
                   uploads[i].name = ClipPath(selected[j])

(* C5 witness: the threshold is 1500, a clip with exactly 1500 views was    *)
(* selected, fetched and uploaded, and the clip before it in the answer     *)
(* was left out.                                                            *)
ClipAtThresholdDelivered ==
    /\ pc = "done"
    /\ VIEW_THRESHOLD = 1500
    /\ IdsOf(selected) = <<ClipId("alice", 2)>>
    /\ ViewsOf(selected) = <<1500>>
    /\ \E i \in 1..Len(uploads) :
          uploads[i].ok /\ uploads[i].name = ClipPath(selected[1])

(* C6: the selection is never longer than CLIP_LIMIT, whatever its value;  *)
(* a limit below 0 admits no clip.                                          *)
BatchWithinLimit ==
    SelectionDone => Len(selected) <= Max(CLIP_LIMIT, 0)

(* C7: the selection is the front of the pool in stable descending order    *)
(* of views: the clip of rank r is at place r, so equal views keep their    *)
(* discovery order; views never increase along the selection; no clip left  *)
(* out has more views than a selected one; and a limit >= 0 cuts the        *)
(* ranked pool to that length.                                              *)
SelectionIsRanked ==
    SelectionDone
       => /\ Len(selected) <= Len(clips)
          /\ \A p \in 1..Len(clips) :
                Rank(clips, p) <= Len(selected)
                   => selected[Rank(clips, p)] = clips[p]
          /\ \A i, j \in 1..Len(selected) :
                i < j => selected[i].view_count >= selected[j].view_count
          /\ \A p \in 1..Len(clips), i \in 1..Len(selected) :
                Rank(clips, p) > Len(selected)
                   => clips[p].view_count <= selected[i].view_count
          /\ CLIP_LIMIT >= 0
                => Len(selected) = Min(CLIP_LIMIT, Len(clips))

(* C7 witness, scenario A: threshold 800, limit 12, one creator whose       *)
(* answer held c1 (900 views), c2 and c3 (1500 views); c2 did not pass the  *)
(* filter and the selection is c3, c1.                                      *)
ScenarioA ==
    /\ SelectionDone
    /\ VIEW_THRESHOLD = 800
    /\ CLIP_LIMIT = 12
    /\ IdsOf(clips) = <<ClipId("alice", 1), ClipId("alice", 3)>>
    /\ ViewsOf(clips) = <<900, 1500>>
    /\ IdsOf(selected) = <<ClipId("alice", 3), ClipId("alice", 1)>>
    /\ ViewsOf(selected) = <<1500, 900>>

(* C8: with ROOT_FOLDER_ID unset, 'The Farm' is looked up and created under *)
(* the default root of the Drive.                                           *)
UnsetRootIsDriveRoot ==
    \A i \in 1..Len(calls) :
       (calls[i].title = TARGET_ROOT /\ ROOT_FOLDER_ID = None)
          => calls[i].parent = DriveRoot

TokenFailureIsFatal ==
    (pc # "token" /\ ACCESS_TOKEN = None)
       => /\ pc = "aborted"
          /\ lookups = <<>> /\ queried = <<>>
          /\ fetches = <<>>
          /\ calls = <<>>
          /\ uploads = <<>>

(* C10 witness: line 58 raised *)
TokenRefused ==
    /\ pc = "aborted"
    /\ fatal = "RuntimeError"
    /\ ACCESS_TOKEN = None
    /\ CREATORS # <<>>
    /\ YT_CHANNELS # <<>>

(* The elements of s at the places that are not in places, in order. *)
RECURSIVE Others(_, _)
Others(s, places) ==
    IF s = <<>> THEN <<>>
    ELSE LET front == Others(SubSeq(s, 1, Len(s) - 1), places)
         IN  IF \E k \in 1..Len(places) : places[k] = Len(s)
             THEN front
             ELSE Append(front, s[Len(s)])

(* C11: the loop over CREATORS goes through the list one login at a time    *)
(* and a login without a platform record neither ends it nor aborts the     *)
(* run: once line 119 is reached every login was looked up, the clips       *)
(* request was sent for exactly the logins at the places that were not      *)
(* skipped, in order, every clip of the pool carries the display name and   *)
(* an id of a login whose clips were requested, and the selection is made   *)
(* from that pool.                                                          *)
UnresolvedCreatorSkipped ==
    /\ pc = "metadata" => lookups = SubSeq(CREATORS, 1, ci - 1)
    /\ SelectionDone => lookups = CREATORS
    /\ AbortedInLoop
          => \A k \in 1..Len(skipped) : skipped[k] # Len(lookups)
    /\ ~AbortedInLoop => queried = Others(lookups, skipped)
    /\ \A i \in 1..Len(clips) :
          \E j \in 1..Len(queried) :
             /\ clips[i].broadcaster_display = Display[queried[j]]
             /\ \E k \in 1..MaxClips : clips[i].id = ClipId(queried[j], k)
    /\ pc = "download" => selected = Select(clips, CLIP_LIMIT)

(* C11 witness: of alice, bob, carol the platform did not know bob; the     *)
(* clips of alice and of carol were requested and one clip of each is       *)
(* selected.                                                                *)
UnknownLoginBetweenTwoKnown ==
    /\ pc = "download"
    /\ CREATORS = <<"alice", "bob", "carol">>
    /\ skipped = <<2>>
    /\ queried = <<"alice", "carol">>
    /\ IdsOf(selected) = <<ClipId("carol", 1), ClipId("alice", 1)>>

(* C12: a run whose Drive key is not set fetches nothing and uploads        *)
(* nothing, and when it is over it has aborted.                             *)
MissingKeyIsFatalAtOnce ==
    GDRIVE_KEY_B64 = None
       => /\ fetches = <<>>
          /\ uploads = <<>>
          /\ Ended => pc = "aborted"

(* C13: a call of ensure_folder(title, parent) made when the Drive holds a  *)
(* folder of that name under parent that is not trashed returns the id of   *)
(* such a folder and creates nothing; made when the Drive holds none, it    *)
(* creates one folder of that name under parent and returns its id.         *)
EnsureFolderFindsOrCreates ==
    [][Len(calls') = Len(calls) + 1
          => LET call == calls'[Len(calls')]
                 existing == {f \in drive : /\ f.name = call.title
                                            /\ f.parent = call.parent
                                            /\ ~f.trashed}
             IN  /\ existing # {}
                       => /\ call.id \in {f.id : f \in existing}
                          /\ drive' = drive
                 /\ existing = {}
                       => /\ call.id \notin {f.id : f \in drive}
                          /\ drive' = drive \cup {Folder(call.id, call.title,
                                                         call.parent, FALSE)}
      ]_vars

(* C14: a run whose download loops end with nothing downloaded returns      *)
(* without error, whether the Drive key is set or not, and has made no call *)
(* of ensure_folder and no upload; the key is read, a folder looked up or a *)
(* file uploaded only after every selected clip and every channel was       *)
(* fetched and something was downloaded.                                    *)
NothingAcquiredReturnsCleanly ==
    /\ (AcquisitionDone /\ downloaded = <<>>)
          => /\ pc = "returned"
             /\ fatal = "none"
             /\ calls = <<>>
             /\ drive = {}
             /\ uploads = <<>>
    /\ pc = "returned" => downloaded = <<>>
    /\ \/ pc \in {"auth", "farm", "inbound", "date", "upload", "done"}
       \/ fatal \in {"KeyError GDRIVE_KEY_B64", "drive request",
                     "upload request"}
       \/ calls # <<>>
       \/ uploads # <<>>
       => /\ downloaded # <<>>
          /\ di = Len(selected) + 1
          /\ yi = Len(YT_CHANNELS) + 1
          /\ Len(fetches) = Len(selected) + Len(YT_CHANNELS)

(* C14 witness: a clip and two slices were fetched, every fetch failed, and *)
(* the run returned although the Drive key is not set.                      *)
AllFetchesFailedCleanReturn ==
    /\ pc = "returned"
    /\ fatal = "none"
    /\ GDRIVE_KEY_B64 = None
    /\ Len(selected) = 1
    /\ Len(fetches) = 3
    /\ \A i \in 1..3 : ~fetches[i].ok

(* C15: a run makes at most three calls of ensure_folder: 'The Farm' under  *)
(* ROOT_FOLDER_ID, 'Inbound' under the id the first returned, the date      *)
(* stamp under the id the second returned; farm_id, inbound_id and date_id  *)
(* stay the ids these calls returned.  No file is uploaded before the       *)
(* third call, the i-th upload is the i-th downloaded file under its own    *)
(* name with the id of the third call as parent, and a run that is done     *)
(* has uploaded every downloaded file once.                                 *)
DestinationResolvedOnce ==
    /\ Len(calls) <= 3
    /\ Len(calls) >= 1
          => /\ calls[1].title = TARGET_ROOT
             /\ calls[1].parent = ROOT_FOLDER_ID
             /\ farm_id = calls[1].id
    /\ Len(calls) >= 2
          => /\ calls[2].title = TARGET_INBOUND
             /\ calls[2].parent = calls[1].id
             /\ inbound_id = calls[2].id
    /\ Len(calls) >= 3
          => /\ calls[3].title = today_str
             /\ calls[3].parent = calls[2].id
             /\ date_id = calls[3].id
    /\ uploads # <<>> => Len(calls) = 3
    /\ Len(uploads) <= Len(downloaded)
    /\ \A i \in 1..Len(uploads) :
          /\ uploads[i].parent = calls[3].id
          /\ uploads[i].name = downloaded[i]
          /\ ~uploads[i].ok => i = Len(uploads) /\ pc = "aborted"
    /\ pc = "done" => Len(uploads) = Len(downloaded)

(* C15 witness: a run that resolved f1, f2, f3 and uploaded a clip and two  *)
(* slices into f3                                                           *)
ThreeFilesInDateFolder ==
    /\ pc = "done"
    /\ Len(calls) = 3
    /\ date_id = "f3"
    /\ Len(downloaded) = 3
    /\ IsClipPath(downloaded[1])
    /\ \A i \in 1..3 : uploads[i] = [name |-> downloaded[i],
                                      parent |-> "f3", ok |-> TRUE]

(* C16: the downloaded list changes only in a step in which yt-dlp was run  *)
(* and returned with exit status 0, and then by the output path of that     *)
(* run appended at its end; a run of yt-dlp that failed leaves the list as  *)
(* it was.                                                                  *)
AppendOnlyAfterFetch ==
    [][/\ downloaded' # downloaded
             => /\ Len(fetches') = Len(fetches) + 1
                /\ fetches'[Len(fetches')].ok
                /\ downloaded'
                      = Append(downloaded, fetches'[Len(fetches')].out)
       /\ (Len(fetches') = Len(fetches) + 1 /\ ~fetches'[Len(fetches')].ok)
             => downloaded' = downloaded
      ]_vars

(* C16 witness: of a clip and two slices only the first slice was fetched   *)
(* and it alone is handed to the upload loop.                               *)
OnlyTheFetchedSliceHandedOn ==
    /\ pc = "upload"
    /\ Len(selected) = 1
    /\ Len(fetches) = 3
    /\ ~fetches[1].ok /\ fetches[2].ok /\ ~fetches[3].ok
    /\ downloaded = <<fetches[2].out>>

(* C17: no output path is in the downloaded list twice.                     *)
OutputPathsUnique ==
    \A i, j \in 1..Len(downloaded) :
       i # j => downloaded[i] # downloaded[j]

(* C18: no run aborts on a key that a record of an answer lacks, and a clip *)
(* without view_count is not taken into the pool, whatever the threshold.   *)
MissingFieldSkipsItem ==
    /\ fatal \notin {"KeyError id", "KeyError display_name",
                     "KeyError view_count", "KeyError url"}
    /\ \A i \in 1..Len(clips) : "view_count" \in DOMAIN clips[i]

(* C19: with two runs in the resolver at once, a run whose listing found    *)
(* nothing creates its folder whatever the other run did in between, and    *)
(* no step removes or trashes a folder a call returned: when both runs      *)
(* missed the same title under the same parent, the Drive holds two         *)
(* folders of that name under that parent.                                  *)
RaceLeavesDuplicates ==
    /\ \A r \in ConcurrentRuns : \A i \in 1..Len(racing[r].log) :
          LET call == racing[r].log[i] IN
          /\ \E f \in drive : f.id = call.id /\ ~f.trashed
          /\ call.missed
                => /\ call.created
                   /\ Folder(call.id, call.title, call.parent, FALSE) \in drive
    /\ \A i \in 1..Len(racing[1].log), j \in 1..Len(racing[2].log) :
          LET a == racing[1].log[i]
              b == racing[2].log[j]
          IN  (a.missed /\ b.missed /\ a.title = b.title
                  /\ a.parent = b.parent)
                 => /\ a.id # b.id
                    /\ Cardinality(Named(a.title, a.parent)) >= 2

(* C19 witness: both runs listed the root when it held no 'The Farm', both  *)
(* created one, and the root now holds two.                                 *)
FarmCreatedTwice ==
    /\ ROOT_FOLDER_ID = SharedRoot
    /\ \A r \in ConcurrentRuns :
          /\ Len(racing[r].log) >= 1
          /\ racing[r].log[1].title = TARGET_ROOT
          /\ racing[r].log[1].absent
          /\ racing[r].log[1].created
    /\ Cardinality(Named(TARGET_ROOT, SharedRoot)) = 2

(* C20: when every request and every run of yt-dlp returns or raises, a     *)
(* run ends, and it ends aborted on an exception, or returned without       *)
(* error with nothing downloaded, looked up or uploaded, or done without    *)
(* error with the upload loop through every downloaded file; a run that     *)
(* has ended takes no further step; and a step leaves the run in its stage, *)
(* takes it to the next stage or ends it, so that no stage is skipped or    *)
(* entered again.                                                           *)
RunEndsInOneOutcome ==
    /\ <>Ended
    /\ [](/\ fatal # "none" <=> pc = "aborted"
          /\ pc = "returned"
                => downloaded = <<>> /\ calls = <<>> /\ uploads = <<>>
          /\ pc = "done"
                => /\ ui = Len(downloaded) + 1
                   /\ Len(uploads) = Len(downloaded)
                   /\ downloaded # <<>>)
    /\ [][/\ ~Ended
          /\ \/ Stage(pc') = Stage(pc)
             \/ Stage(pc') = Stage(pc) + 1
             \/ Ended'
         ]_vars

(* C20 witness: a run that went through every stage and is done             *)
RunWentThroughEveryStage ==
    /\ pc = "done"
    /\ queried # <<>>
    /\ selected # <<>>
    /\ Len(fetches) = 2
    /\ Len(calls) = 3
    /\ Len(uploads) = 2

====
